---- MODULE Spec2Model ----
(***************************************************************************)
(* node-sqlite-kv: the synchronous key-value store KVSync                  *)
(* (src/src/classes/KVSync.ts) over a node:sqlite DatabaseSync handle, and *)
(* its transaction() primitive with the prototype-based staging handle.    *)
(*                                                                         *)
(* Everything is synchronous and single-threaded.  A transaction() call is *)
(* split at the points where user code runs: the call enters (checks,      *)
(* BEGIN), the routine makes its calls one at a time, and the routine's    *)
(* end (normal return or raised failure) runs the rest of the try/catch.   *)
(***************************************************************************)
EXTENDS Integers, Sequences, FiniteSets, TLC

\* ------------------------------------------------------------------ bounds

\* Calls the routines make during one outermost transaction, and calls made
\* on one staging handle, by its routine and after its transaction has ended.
MaxSteps == 3
\* Transaction routines that can be running at once (routine inside routine).
MaxDepth == 2
\* Length of the call sequences of the plain-store specification SpecMap.
MaxHist == 4

\* ------------------------------------------------------------- JS values

Keys == {"a", "b"}
\* The numbers callers store, besides null.
Numbers == {1}
EmptyKey == ""
\* A key that is no string (the number 42), written as a text that no caller
\* uses as a key.
NumberKey == "<42>"
AnyKey == Keys \cup {EmptyKey, NumberKey}

JSUndefined == [type |-> "undefined"]
JSNull == [type |-> "null"]
JSNumber(n) == [type |-> "number", n |-> n]
\* The store object itself, as the return value of delete() and clear().
JSThis == [type |-> "KVSync"]
\* The result of all(): an array of {key, value}.
JSArray(s) == [type |-> "array", items |-> s]

Storable == {JSNull} \cup {JSNumber(n) : n \in Numbers}
Supplied == Storable \cup {JSUndefined}

\* `!key || typeof key !== "string"`
ValidKey(key) == key # EmptyKey /\ key # NumberKey

\* ---------------------------------------------------------------- errors

NoError == [class |-> "none", scope |-> "", message |-> ""]
KVError(scope, message) == [class |-> "KVError", scope |-> scope, message |-> message]
\* A failure of the engine (node:sqlite), named by the statement that failed.
SqliteError(stmt, message) == [class |-> "SqliteError", scope |-> stmt, message |-> message]
\* Calling a method the handle inherits from the store reads #db on an object
\* that does not have it.
PrivateMemberError == [class |-> "TypeError", scope |-> "tx", message |-> "Cannot read private member #db"]
\* Failures the routine raises itself.
UserErrors == {[class |-> "Error", scope |-> "routine", message |-> "E1"]}

MsgNotOpen == "Database is not open"
\* set() words it without the full stop, get() and delete() with it.
MsgKey == "Key must be provided and be a non-empty string"
MsgKeyStop == "Key must be provided and be a non-empty string."
MsgUndefined == "Provided value is undefined, did you mean to use delete()?"
MsgNoCallback == "A callback must be provided when using transaction()."
MsgBadCallback == "Transaction callback must be of type function."
\* The start of the message, which goes on with the mode received.
MsgJournalMode == "Invalid journal mode specified"

IsNotOpen(e) == e.class = "KVError" /\ e.message = MsgNotOpen
IsInvalidKey(e) == e.class = "KVError" /\ e.message \in {MsgKey, MsgKeyStop}
IsUndefinedValue(e) == e.class = "KVError" /\ e.message = MsgUndefined
IsMissingCallback(e) == e.class = "KVError" /\ e.message = MsgNoCallback
IsInvalidCallback(e) == e.class = "KVError" /\ e.message = MsgBadCallback
IsInvalidJournalMode(e) == e.class = "KVError" /\ e.message = MsgJournalMode

\* ----------------------------------------------------------- value codec

\* node:v8 serialize(): the header (0xFF, version 15), a tag byte ('0' null,
\* 'I' int32) and, for an int32, its zigzag varint (one byte below 64).
serialize(value) ==
    IF value = JSNull THEN <<255, 15, 48>>
    ELSE <<255, 15, 73, 2 * value.n>>

deserialize(bytes) ==
    IF bytes[3] = 48 THEN JSNull
    ELSE JSNumber(bytes[4] \div 2)

\* ------------------------------------------------- engine: the kv table

\* The table kv (key TEXT PRIMARY KEY NOT NULL, value BLOB NOT NULL) is the
\* sequence of its rows in scan (rowid) order.
Row(key, bytes) == [key |-> key, value |-> bytes]

HasRow(rows, key) == \E i \in 1..Len(rows) : rows[i].key = key

RowOf(rows, key) == rows[CHOOSE i \in 1..Len(rows) : rows[i].key = key]

\* DELETE FROM kv WHERE key = ?
DeleteWhereKey(rows, key) == SelectSeq(rows, LAMBDA r : r.key # key)

\* (The variant INSERT OR IGNORE, which keeps the row in conflict.)
InsertOrReplaceIgnoring(rows, key, bytes) ==
    IF HasRow(rows, key) THEN rows ELSE Append(rows, Row(key, bytes))

\* INSERT OR REPLACE INTO kv (key, value) VALUES (?, ?): the row in conflict
\* is deleted and the new row gets a fresh rowid, after all others.
InsertOrReplace(rows, key, bytes) ==
    Append(DeleteWhereKey(rows, key), Row(key, bytes))

\* ------------------------------------- engine: handle and transactions

\* Object.values(journalModes)
journalModes == {"DELETE", "MEMORY", "OFF", "PERSIST", "TRUNCATE", "WAL"}

\* The DatabaseSync handle: isOpen, the table as this connection sees it,
\* whether a transaction is active, the table as of its BEGIN, the journal
\* mode of the database file and the argument of the last PRAGMA journal_mode
\* statement the engine was sent.  The constructor sends the mode of a
\* persistent database.
NewDb(rows) ==
    [isOpen |-> TRUE, rows |-> rows, inTxn |-> FALSE, saved |-> <<>>,
     mode |-> "WAL", pragma |-> "WAL"]

Ok(d, ret) == [db |-> d, err |-> NoError, ret |-> ret]
Fail(d, e) == [db |-> d, err |-> e, ret |-> JSUndefined]

ExecBegin(d) ==
    IF ~d.isOpen THEN Fail(d, SqliteError("BEGIN", "database is not open"))
    ELSE IF d.inTxn
    THEN Fail(d, SqliteError("BEGIN", "cannot start a transaction within a transaction"))
    ELSE Ok([d EXCEPT !.inTxn = TRUE, !.saved = d.rows], JSUndefined)

ExecCommit(d) ==
    IF ~d.isOpen THEN Fail(d, SqliteError("COMMIT", "database is not open"))
    ELSE IF ~d.inTxn
    THEN Fail(d, SqliteError("COMMIT", "cannot commit - no transaction is active"))
    ELSE Ok([d EXCEPT !.inTxn = FALSE, !.saved = <<>>], JSUndefined)

ExecRollback(d) ==
    IF ~d.isOpen THEN Fail(d, SqliteError("ROLLBACK", "database is not open"))
    ELSE IF ~d.inTxn
    THEN Fail(d, SqliteError("ROLLBACK", "cannot rollback - no transaction is active"))
    ELSE Ok([d EXCEPT !.rows = d.saved, !.inTxn = FALSE, !.saved = <<>>], JSUndefined)

\* PRAGMA journal_mode = mode: a name the engine does not know leaves the mode
\* as it is, a change into or out of WAL is refused within a transaction, and
\* no other change takes effect while a transaction is active.
ExecJournalMode(d, mode) ==
    LET sent == [d EXCEPT !.pragma = mode]
    IN  IF ~d.isOpen THEN Fail(d, SqliteError("PRAGMA", "database is not open"))
        ELSE IF mode \notin journalModes \/ mode = d.mode THEN Ok(sent, JSUndefined)
        ELSE IF d.inTxn /\ "WAL" \in {mode, d.mode}
        THEN Fail(sent, SqliteError("PRAGMA", "cannot change into/out of wal mode from within a transaction"))
        ELSE IF d.inTxn THEN Ok(sent, JSUndefined)
        ELSE Ok([sent EXCEPT !.mode = mode], JSUndefined)

\* DatabaseSync.close(): an active transaction is rolled back.
EngineClose(d) ==
    [d EXCEPT !.isOpen = FALSE, !.inTxn = FALSE, !.saved = <<>>,
              !.rows = IF d.inTxn THEN d.saved ELSE d.rows]

\* ------------------------------------------------------- KVSync methods
\* Each method is its outcome on a handle d: the handle afterwards, the
\* failure raised (NoError if none) and the value returned.

\* (The variant of set() without the check of the key.)
KVSetAnyKey(d, key, value) ==
    IF ~d.isOpen THEN Fail(d, KVError("set", MsgNotOpen))
    ELSE IF value = JSUndefined THEN Fail(d, KVError("set", MsgUndefined))
    ELSE Ok([d EXCEPT !.rows = InsertOrReplace(d.rows, key, serialize(value))], value)

KVSet(d, key, value) ==
    IF ~d.isOpen THEN Fail(d, KVError("set", MsgNotOpen))
    ELSE IF ~ValidKey(key) THEN Fail(d, KVError("set", MsgKey))
    ELSE IF value = JSUndefined THEN Fail(d, KVError("set", MsgUndefined))
    ELSE Ok([d EXCEPT !.rows = InsertOrReplace(d.rows, key, serialize(value))], value)

KVGet(d, key) ==
    IF ~d.isOpen THEN Fail(d, KVError("get", MsgNotOpen))
    ELSE IF ~ValidKey(key) THEN Fail(d, KVError("get", MsgKeyStop))
    ELSE IF HasRow(d.rows, key) THEN Ok(d, deserialize(RowOf(d.rows, key).value))
    ELSE Ok(d, JSNull)

\* (The variant of delete() that refuses a key without entry.)
KVDeleteStrict(d, key) ==
    IF ~d.isOpen THEN Fail(d, KVError("delete", MsgNotOpen))
    ELSE IF ~ValidKey(key) THEN Fail(d, KVError("delete", MsgKeyStop))
    ELSE IF ~HasRow(d.rows, key) THEN Fail(d, KVError("delete", "Key does not exist"))
    ELSE Ok([d EXCEPT !.rows = DeleteWhereKey(d.rows, key)], JSThis)

\* (The variant of delete() whose statement has no WHERE clause.)
KVDeleteEvery(d, key) ==
    IF ~d.isOpen THEN Fail(d, KVError("delete", MsgNotOpen))
    ELSE IF ~ValidKey(key) THEN Fail(d, KVError("delete", MsgKeyStop))
    ELSE Ok([d EXCEPT !.rows = <<>>], JSThis)

KVDelete(d, key) ==
    IF ~d.isOpen THEN Fail(d, KVError("delete", MsgNotOpen))
    ELSE IF ~ValidKey(key) THEN Fail(d, KVError("delete", MsgKeyStop))
    ELSE Ok([d EXCEPT !.rows = DeleteWhereKey(d.rows, key)], JSThis)

\* all() without a filter: every row, decoded, in scan order.
AllEntries(rows) ==
    [i \in 1..Len(rows) |-> [key |-> rows[i].key, value |-> deserialize(rows[i].value)]]

KVAll(d) ==
    IF ~d.isOpen THEN Fail(d, KVError("all", MsgNotOpen))
    ELSE Ok(d, JSArray(AllEntries(d.rows)))

\* (The variant of clear() whose statement deletes one row only.)
KVClearOne(d) ==
    IF ~d.isOpen THEN Fail(d, KVError("clear", MsgNotOpen))
    ELSE Ok([d EXCEPT !.rows = IF @ = <<>> THEN @ ELSE Tail(@)], JSThis)

KVClear(d) ==
    IF ~d.isOpen THEN Fail(d, KVError("clear", MsgNotOpen))
    ELSE Ok([d EXCEPT !.rows = <<>>], JSThis)

\* (The variant of setJournalMode() that hands any mode to the engine.)
KVSetJournalModeUnchecked(d, mode) ==
    IF ~d.isOpen THEN Fail(d, KVError("setJournalMode", MsgNotOpen))
    ELSE LET p == ExecJournalMode(d, mode)
         IN  IF p.err # NoError THEN p ELSE Ok(p.db, JSThis)

KVSetJournalMode(d, mode) ==
    IF ~d.isOpen THEN Fail(d, KVError("setJournalMode", MsgNotOpen))
    ELSE IF mode \notin journalModes THEN Fail(d, KVError("setJournalMode", MsgJournalMode))
    ELSE LET p == ExecJournalMode(d, mode)
         IN  IF p.err # NoError THEN p ELSE Ok(p.db, JSThis)

\* (The variant of open() that opens a closed handle again.)
KVOpenReopening(d) ==
    IF d.isOpen THEN Fail(d, KVError("open", "Database is open"))
    ELSE Ok([d EXCEPT !.isOpen = TRUE], JSUndefined)

\* open() only refuses an open store; it never opens the handle.
KVOpen(d) ==
    IF d.isOpen THEN Fail(d, KVError("open", "Database is open"))
    ELSE Ok(d, JSUndefined)

KVClose(d) ==
    IF ~d.isOpen THEN Fail(d, KVError("close", MsgNotOpen))
    ELSE Ok(EngineClose(d), JSUndefined)

\* ------------------------------------------------ the staging handle
\* A JS Map is the sequence of its entries <<key, value>> in insertion order.

MapHas(m, key) == \E i \in 1..Len(m) : m[i][1] = key

\* (The variant of Map.prototype.set that re-inserts the key at the end.)
MapSetMoving(m, key, value) ==
    Append(SelectSeq(m, LAMBDA e : e[1] # key), <<key, value>>)

\* Map.prototype.set: a key already present keeps its place.
MapSet(m, key, value) ==
    IF MapHas(m, key)
    THEN [i \in 1..Len(m) |-> IF m[i][1] = key THEN <<key, value>> ELSE m[i]]
    ELSE Append(m, <<key, value>>)

\* The two maps one transaction() call creates, closed over by tx.set and
\* tx.delete.
NewMaps == [oldMap |-> <<>>, newMap |-> <<>>]

\* The handle itself, as the return value of tx.delete.
JSTx == [type |-> "tx"]

Staged(maps, err, ret) == [maps |-> maps, err |-> err, ret |-> ret]

\* (The variant that enters the key in oldMap before it reads the store.)
RecordOldBeforeGet(d, maps, key) ==
    IF MapHas(maps.oldMap, key) THEN Staged(maps, NoError, JSUndefined)
    ELSE LET g == KVGet(d, key)
             entered == [maps EXCEPT !.oldMap = MapSet(@, key, JSUndefined)]
         IN  IF g.err # NoError THEN Staged(entered, g.err, JSUndefined)
             ELSE Staged([maps EXCEPT !.oldMap =
                              MapSet(@, key, IF g.ret = JSNull THEN JSUndefined ELSE g.ret)],
                         NoError, JSUndefined)

\* oldMap.set(key, oldValue === null ? undefined : oldValue), on first touch;
\* this.get may raise, and then neither map is written.
RecordOld(d, maps, key) ==
    IF MapHas(maps.oldMap, key) THEN Staged(maps, NoError, JSUndefined)
    ELSE LET g == KVGet(d, key)
         IN  IF g.err # NoError THEN Staged(maps, g.err, JSUndefined)
             ELSE Staged([maps EXCEPT !.oldMap =
                              MapSet(@, key, IF g.ret = JSNull THEN JSUndefined ELSE g.ret)],
                         NoError, JSUndefined)

\* tx.set(key, value)
TxSet(d, maps, key, value) ==
    LET o == RecordOld(d, maps, key)
    IN  IF o.err # NoError THEN o
        ELSE Staged([o.maps EXCEPT !.newMap = MapSet(@, key, value)], NoError,
                    IF value \in {JSUndefined, JSNull} THEN JSNull ELSE value)

\* tx.delete(key)
TxDelete(d, maps, key) ==
    LET o == RecordOld(d, maps, key)
    IN  IF o.err # NoError THEN o
        ELSE Staged([o.maps EXCEPT !.newMap = MapSet(@, key, JSNull)], NoError, JSTx)

\* ------------------------------------------------------- transaction()

\* for (const [key, value] of newMap.entries()): delete for null, set
\* otherwise; the first failure ends the loop.
RECURSIVE Replay(_, _)
Replay(d, entries) ==
    IF entries = <<>> THEN Ok(d, JSUndefined)
    ELSE LET key == Head(entries)[1]
             value == Head(entries)[2]
             r == IF value = JSNull THEN KVDelete(d, key) ELSE KVSet(d, key, value)
         IN  IF r.err # NoError THEN r ELSE Replay(r.db, Tail(entries))

\* The outcome of transaction(), or of one part of it: the handle afterwards,
\* the failure raised to the caller, the failure the catch block caught, and
\* the part of the try block that raised it.
Outcome(d, err, first, stage) == [db |-> d, err |-> err, first |-> first, stage |-> stage]

\* (The variant of the catch block that only raises the failure again.)
CatchBlockRethrowing(d, error, stage) == Outcome(d, error, error, stage)

\* catch (error) { this.#db.exec("ROLLBACK;"); throw error; }
CatchBlock(d, error, stage) ==
    LET rb == ExecRollback(d)
    IN  IF rb.err # NoError THEN Outcome(d, rb.err, error, stage)
        ELSE Outcome(rb.db, error, error, stage)

\* What callers pass as callback: a function, nothing, a non-empty string,
\* the number 0.
Callbacks == {"function", "undefined", "string", "zero"}

\* `!callback`
Falsy(callback) == callback \in {"undefined", "zero"}

\* The checks of the callback, then BEGIN inside the try block.
TxnEnter(d, callback) ==
    IF ~d.isOpen
    THEN Outcome(d, KVError("transaction", MsgNotOpen), NoError, "check")
    ELSE IF Falsy(callback)
    THEN Outcome(d, KVError("transaction", MsgNoCallback), NoError, "check")
    ELSE IF callback # "function"
    THEN Outcome(d, KVError("transaction", MsgBadCallback), NoError, "check")
    ELSE LET b == ExecBegin(d)
         IN  IF b.err # NoError THEN CatchBlock(d, b.err, "begin")
             ELSE Outcome(b.db, NoError, NoError, "entered")

\* (The variant of the try block with the replay and COMMIT in a finally block.)
TryAfterCallbackFinally(d, maps, thrown) ==
    LET r == Replay(d, maps.newMap)
        c == ExecCommit(r.db)
    IN  IF thrown # NoError THEN Outcome(c.db, thrown, thrown, "routine")
        ELSE IF r.err # NoError THEN CatchBlock(r.db, r.err, "replay")
        ELSE IF c.err # NoError THEN CatchBlock(c.db, c.err, "commit")
        ELSE Outcome(c.db, NoError, NoError, "returned")

\* The rest of the try block once callback(tx) has ended, by returning
\* (thrown = NoError) or by raising thrown.
TryAfterCallback(d, maps, thrown) ==
    IF thrown # NoError THEN CatchBlock(d, thrown, "routine")
    ELSE LET r == Replay(d, maps.newMap)
         IN  IF r.err # NoError THEN CatchBlock(r.db, r.err, "replay")
             ELSE LET c == ExecCommit(r.db)
                  IN  IF c.err # NoError THEN CatchBlock(c.db, c.err, "commit")
                      ELSE Outcome(c.db, NoError, NoError, "returned")

\* Array.from(map.entries()).map(([key, value]) => ({ key, value }))
EntriesOf(m) == [i \in 1..Len(m) |-> [key |-> m[i][1], value |-> m[i][2]]]

Report(maps) == [oldValues |-> EntriesOf(maps.oldMap), newValues |-> EntriesOf(maps.newMap)]

\* ---------------------------------------------------------------- state

VARIABLES
    db,       \* the store's #db handle
    stack,    \* the transaction() calls whose routine is running, outermost first
    calls,    \* calls made by routines since the outermost running transaction began
    raising,  \* the failure in flight inside the innermost routine, or NoError
    last,     \* the last call of the store's caller other than transaction(): its
              \* arguments and outcome, whether it repeats the call before it,
              \* and the table before it
    done,     \* the last transaction() call that ended, and how, if no call of
              \* the store's caller and no routine has begun since
    hist      \* SpecMap, SpecFrame: the set/delete/clear calls made on the store
              \* itself since construction

vars == <<db, stack, calls, raising, last, done, hist>>

\* One running transaction() call: its two maps, and for the properties the
\* table when the call began, the staging calls that completed on its handle,
\* whether its routine has made staging calls only, and whether it has called
\* set, delete or clear on the store itself.
NewFrame(rows) ==
    [maps |-> NewMaps, startRows |-> rows, log |-> <<>>, pure |-> TRUE, wrote |-> FALSE]

Top == stack[Len(stack)]

\* The innermost routine has made a call that is no staging call; writes
\* tells whether it was set, delete or clear on the store.
Impure(writes) ==
    IF stack = <<>> THEN stack
    ELSE [stack EXCEPT ![Len(stack)].pure = FALSE, ![Len(stack)].wrote = @ \/ writes]

\* A call can be made: by the caller of the store, or by the innermost
\* routine while no failure is in flight.
Calling == raising = NoError /\ (stack # <<>> => calls < MaxSteps)

Counted == IF stack = <<>> THEN 0 ELSE calls + 1

\* A failure raised inside a routine is in flight there; raised to the
\* caller of the store it is recorded in last or done.
Raised(e) == IF stack # <<>> THEN e ELSE NoError

NoCall ==
    [op |-> "none", key |-> "", err |-> NoError, ret |-> JSUndefined, repeat |-> FALSE,
     before |-> <<>>, arg |-> JSUndefined]

NoTxn ==
    [status |-> "none", stage |-> "none", error |-> NoError, first |-> NoError,
     oldValues |-> <<>>, newValues |-> <<>>, startRows |-> <<>>, endRows |-> <<>>,
     log |-> <<>>, pure |-> FALSE, wrote |-> FALSE, callback |-> "function",
     maps |-> NewMaps]

\* Tables a store can hold: rows of distinct valid keys, values that set() encoded.
RowsOver(keys) == {Row(k, serialize(v)) : k \in keys, v \in Storable}

Tables ==
    {t \in UNION {[1..n -> RowsOver(Keys)] : n \in 0..Cardinality(Keys)} :
        \A i, j \in 1..Len(t) : t[i].key = t[j].key => i = j}

\* After construction: open, no transaction active, the table as the file
\* holds it (CREATE TABLE IF NOT EXISTS keeps earlier content).
Init ==
    /\ db \in {NewDb(t) : t \in Tables}
    /\ stack = <<>>
    /\ calls = 0
    /\ raising = NoError
    /\ last = NoCall
    /\ done = NoTxn
    /\ hist = <<>>

\* ------------------------------------------------- calls on the store

\* A call of a store method other than transaction(), with the value or mode
\* it was given (undefined if it takes none) and its outcome.
StoreCall(op, key, arg, out) ==
    /\ Calling
    /\ db' = out.db
    /\ raising' = Raised(out.err)
    /\ stack' = Impure(op \in {"set", "delete", "clear"})
    /\ calls' = Counted
    /\ IF stack = <<>>
       THEN /\ last' = [op |-> op, key |-> key, err |-> out.err, ret |-> out.ret,
                        repeat |-> last.op = op /\ last.key = key /\ last.err = NoError,
                        before |-> db.rows, arg |-> arg]
            /\ done' = NoTxn
       ELSE UNCHANGED <<last, done>>

Set(key, value) == StoreCall("set", key, value, KVSet(db, key, value)) /\ UNCHANGED hist

Get(key) == StoreCall("get", key, JSUndefined, KVGet(db, key)) /\ UNCHANGED hist

Delete(key) == StoreCall("delete", key, JSUndefined, KVDelete(db, key)) /\ UNCHANGED hist

All == StoreCall("all", "", JSUndefined, KVAll(db)) /\ UNCHANGED hist

Clear == StoreCall("clear", "", JSUndefined, KVClear(db)) /\ UNCHANGED hist

Open == StoreCall("open", "", JSUndefined, KVOpen(db)) /\ UNCHANGED hist

Close == StoreCall("close", "", JSUndefined, KVClose(db)) /\ UNCHANGED hist

\* setJournalMode(mode); the record of the call holds the mode as its key.
SetJournalMode(mode) ==
    StoreCall("setJournalMode", mode, JSUndefined, KVSetJournalMode(db, mode))
        /\ UNCHANGED hist

\* ------------------------------------------------------ transaction()

\* How a transaction() call ended; the callback it was given is a function
\* unless the call ended at the checks.  The report holds copies of the
\* entries (Array.from); maps are the two maps themselves, which the handle of
\* the call still closes over.
Ended(out, frame) ==
    [status |-> IF out.err = NoError THEN "returned" ELSE "raised",
     stage |-> out.stage, error |-> out.err, first |-> out.first,
     oldValues |-> IF out.err = NoError THEN Report(frame.maps).oldValues ELSE <<>>,
     newValues |-> IF out.err = NoError THEN Report(frame.maps).newValues ELSE <<>>,
     startRows |-> frame.startRows, endRows |-> out.db.rows,
     log |-> frame.log, pure |-> frame.pure, wrote |-> frame.wrote,
     callback |-> "function", maps |-> frame.maps]

\* transaction(callback) up to the call of the routine: either the call ends
\* here with a failure, or the routine starts running.
TransactionCall(callback) ==
    /\ Calling
    /\ LET out == TxnEnter(db, callback)
       IN  /\ db' = out.db
           /\ calls' = Counted
           /\ last' = NoCall
           /\ IF out.err = NoError
              THEN /\ Len(stack) < MaxDepth
                   /\ stack' = Append(Impure(FALSE), NewFrame(db.rows))
                   /\ raising' = NoError
                   /\ done' = NoTxn
              ELSE /\ stack' = Impure(FALSE)
                   /\ raising' = Raised(out.err)
                   /\ done' = [Ended(out, NewFrame(db.rows)) EXCEPT !.callback = callback]

Transaction(callback) == TransactionCall(callback) /\ UNCHANGED hist

\* (The variant in which tx.set and tx.delete also write to the store at once.)
StagingCallEager(op, key, value, out) ==
    /\ Calling
    /\ stack' = [stack EXCEPT
                    ![Len(stack)].maps = out.maps,
                    ![Len(stack)].log =
                        IF out.err = NoError
                        THEN Append(@, [op |-> op, key |-> key, value |-> value])
                        ELSE @]
    /\ calls' = Counted
    /\ raising' = out.err
    /\ db' = IF out.err = NoError THEN Replay(db, <<<<key, value>>>>).db ELSE db
    /\ UNCHANGED <<last, done, hist>>

\* A staging call of the innermost routine on its handle: it reads the store
\* and writes the two maps.
StagingCall(op, key, value, out) ==
    /\ Calling
    /\ stack' = [stack EXCEPT
                    ![Len(stack)].maps = out.maps,
                    ![Len(stack)].log =
                        IF out.err = NoError
                        THEN Append(@, [op |-> op, key |-> key, value |-> value])
                        ELSE @]
    /\ calls' = Counted
    /\ raising' = out.err
    /\ UNCHANGED <<db, last, done, hist>>

TxSetCall(key, value) ==
    stack # <<>> /\ StagingCall("set", key, value, TxSet(db, Top.maps, key, value))

TxDeleteCall(key) ==
    stack # <<>> /\ StagingCall("delete", key, JSNull, TxDelete(db, Top.maps, key))

\* The routine calls a method the handle inherits from the store (tx.get,
\* tx.all, tx.clear, ...): `this` is the handle, which has no #db.
TxInheritedCall ==
    /\ stack # <<>>
    /\ Calling
    /\ stack' = Impure(FALSE)
    /\ calls' = Counted
    /\ raising' = PrivateMemberError
    /\ UNCHANGED <<db, last, done, hist>>

\* The routine raises a failure of its own.
Throw(e) ==
    /\ stack # <<>>
    /\ raising = NoError
    /\ raising' = e
    /\ UNCHANGED <<db, stack, calls, last, done, hist>>

\* The routine catches the failure of the call it made and goes on.
Catch ==
    /\ stack # <<>>
    /\ raising # NoError
    /\ raising' = NoError
    /\ UNCHANGED <<db, stack, calls, last, done, hist>>

\* callback(tx) has ended, by returning or with thrown: the rest of the try
\* block and the catch block run, and the call ends.
Finish(thrown) ==
    LET out == TryAfterCallback(db, Top.maps, thrown)
        rest == SubSeq(stack, 1, Len(stack) - 1)
    IN  /\ db' = out.db
        /\ stack' = rest
        /\ calls' = IF rest = <<>> THEN 0 ELSE calls
        /\ raising' = IF rest # <<>> THEN out.err ELSE NoError
        /\ done' = Ended(out, Top)
        /\ UNCHANGED <<last, hist>>

RoutineReturns == stack # <<>> /\ raising = NoError /\ Finish(NoError)

RoutineRaises == stack # <<>> /\ raising # NoError /\ Finish(raising)

Next ==
    \/ \E key \in AnyKey, value \in Supplied : Set(key, value)
    \/ \E key \in AnyKey : Get(key)
    \/ \E key \in AnyKey : Delete(key)
    \/ All
    \/ Clear
    \/ Open
    \/ Close
    \/ \E callback \in Callbacks : Transaction(callback)
    \/ \E key \in AnyKey, value \in Supplied : TxSetCall(key, value)
    \/ \E key \in AnyKey : TxDeleteCall(key)
    \/ TxInheritedCall
    \/ \E e \in UserErrors : Throw(e)
    \/ Catch
    \/ RoutineReturns
    \/ RoutineRaises

Spec == Init /\ [][Next]_vars

\* ------------------------------------------------------------ properties

\* What get(key) and all() return on an open store holding rows.
GetOf(rows, key) == KVGet(NewDb(rows), key).ret

AllOf(rows) == KVAll(NewDb(rows)).ret

SameContent(rows1, rows2) ==
    /\ \A key \in Keys : GetOf(rows1, key) = GetOf(rows2, key)
    /\ AllOf(rows1) = AllOf(rows2)

\* The keys of the staging calls in log, each at its first occurrence.
RECURSIVE FirstTouch(_)
FirstTouch(log) ==
    IF log = <<>> THEN <<>>
    ELSE LET front == FirstTouch(SubSeq(log, 1, Len(log) - 1))
             key == log[Len(log)].key
         IN  IF \E i \in 1..Len(front) : front[i] = key THEN front ELSE Append(front, key)

Touched(log) == {log[i].key : i \in 1..Len(log)}

\* The last staging call in log for key.
LastIntent(log, key) ==
    log[CHOOSE i \in 1..Len(log) :
            /\ log[i].key = key
            /\ \A j \in (i + 1)..Len(log) : log[j].key # key]

StagedUndefined(log) ==
    \E i \in 1..Len(log) : log[i].op = "set" /\ log[i].value = JSUndefined

\* C1: a routine that only makes staging calls and then raises a failure makes
\* transaction() fail, and get(k) for every key and all() then return what
\* they returned when the call began.
C1_RoutineFailureRollsBack ==
    (done.stage = "routine" /\ done.pure) =>
        /\ done.status = "raised"
        /\ done.error # NoError
        /\ SameContent(done.endRows, done.startRows)

\* C1's case: a routine staged a set and a delete that would change the
\* table, raised, and the call has ended.
C1_Witness ==
    /\ done.stage = "routine"
    /\ done.pure
    /\ \E i, j \in 1..Len(done.log) :
        /\ done.log[i].op = "set"
        /\ done.log[i].value \in Storable
        /\ GetOf(done.startRows, done.log[i].key) # done.log[i].value
        /\ done.log[j].op = "delete"
        /\ done.log[j].key # done.log[i].key
        /\ HasRow(done.startRows, done.log[j].key)

\* C2: when the routine returns normally and the replay of the staged
\* intents fails at some intent, the table is afterwards what it was when the
\* transaction() call began: no intent applied before the failing one stays.
\* Stated for routines that write through the staging handle only, so that
\* the intents applied are all that could have changed the table.
C2_ReplayFailureRollsBack ==
    (done.status = "raised" /\ done.stage = "replay" /\ ~done.wrote) =>
        SameContent(done.endRows, done.startRows)

\* C3: whenever a transaction() call ends by raising a failure, the table is
\* what it was when that call began, also when its routine calls
\* transaction() itself and catches the failure.  Stated for the calls of the
\* store's caller (no routine is running once the call has ended) whose
\* routine writes through the staging handle only.
C3_FailureLeavesStoreAsItWas ==
    (done.status = "raised" /\ stack = <<>> /\ ~done.wrote) =>
        SameContent(done.endRows, done.startRows)

\* C4: the failure transaction() raises is the failure first raised by the
\* routine, by the replay or by COMMIT, never another one.
C4_FailurePropagatesUnchanged ==
    (done.status = "raised" /\ done.stage \in {"routine", "replay", "commit"}) =>
        done.error = done.first

\* The entries of a reported sequence for key.
EntriesFor(entries, key) == {i \in 1..Len(entries) : entries[i].key = key}

\* The value key had in rows as oldValues is to report it: undefined is the
\* absence sentinel of oldValues.
Before(rows, key) ==
    IF HasRow(rows, key) THEN deserialize(RowOf(rows, key).value) ELSE JSUndefined

\* C5: in the report of a successful transaction every key touched through
\* the staging handle has exactly one oldValues entry, holding the value the
\* key had when the transaction began (undefined if it had no entry), and
\* exactly one newValues entry, holding the value of the last intent staged
\* for it (null if that was a delete).
C5_SnapshotCorrect ==
    done.status = "returned" =>
        \A key \in Touched(done.log) :
            /\ Cardinality(EntriesFor(done.oldValues, key)) = 1
            /\ \A i \in EntriesFor(done.oldValues, key) :
                   done.oldValues[i].value = Before(done.startRows, key)
            /\ Cardinality(EntriesFor(done.newValues, key)) = 1
            /\ \A i \in EntriesFor(done.newValues, key) :
                   done.newValues[i].value = LastIntent(done.log, key).value

\* C6: after transaction() returns normally, a key whose last intent was
\* set(k, v) has the entry (k, v) in the store, once, for every storable v,
\* null included; a key whose last intent was delete(k) has no entry.
C6_CommittedMatchesIntents ==
    done.status = "returned" =>
        \A key \in Touched(done.log) :
            LET intent == LastIntent(done.log, key)
                entries == AllOf(done.endRows).items
            IN  IF intent.op = "set"
                THEN /\ HasRow(done.endRows, key)
                     /\ GetOf(done.endRows, key) = intent.value
                     /\ Cardinality(EntriesFor(entries, key)) = 1
                     /\ \A i \in EntriesFor(entries, key) : entries[i].value = intent.value
                ELSE /\ ~HasRow(done.endRows, key)
                     /\ GetOf(done.endRows, key) = JSNull
                     /\ EntriesFor(entries, key) = {}

\* C7: in the report of every successful transaction, oldValues and
\* newValues each list every touched key exactly once, in the order in which
\* the keys were first touched; touching a key again does not move it.
C7_ReportInFirstTouchOrder ==
    done.status = "returned" =>
        /\ [i \in 1..Len(done.oldValues) |-> done.oldValues[i].key] = FirstTouch(done.log)
        /\ [i \in 1..Len(done.newValues) |-> done.newValues[i].key] = FirstTouch(done.log)

\* C7's case: a transaction returned whose routine touched one key, then
\* another, then the first again with another intent.
C7_Witness ==
    /\ done.status = "returned"
    /\ \E i, j, l \in 1..Len(done.log) :
        /\ i < j /\ j < l
        /\ done.log[i].key = done.log[l].key
        /\ done.log[i].key # done.log[j].key
        /\ done.log[i].value # done.log[l].value

\* C8: a transaction whose routine calls set(k, undefined) on the staging
\* handle fails with the undefined-value failure and leaves the store as it
\* was, whatever is staged before or after that call.  Stated for routines
\* that make staging calls only and return normally.
C8_UndefinedValueFailsTransaction ==
    (done.status # "none" /\ done.stage # "routine" /\ done.pure
        /\ StagedUndefined(done.log)) =>
        /\ done.status = "raised"
        /\ IsUndefinedValue(done.error)
        /\ SameContent(done.endRows, done.startRows)

\* ------------------------------------------- the store as a plain map
\* SpecMap: a store constructed on an empty table, and its caller making
\* set, delete and clear calls with valid keys, reading with get and all.

InitMap ==
    /\ db = NewDb(<<>>)
    /\ stack = <<>>
    /\ calls = 0
    /\ raising = NoError
    /\ last = NoCall
    /\ done = NoTxn
    /\ hist = <<>>

Logged(op, key, value) ==
    /\ Len(hist) < MaxHist
    /\ hist' = Append(hist, [op |-> op, key |-> key, value |-> value])

MapSetCall(key, value) ==
    StoreCall("set", key, value, KVSet(db, key, value)) /\ Logged("set", key, value)

MapDeleteCall(key) ==
    StoreCall("delete", key, JSUndefined, KVDelete(db, key)) /\ Logged("delete", key, JSNull)

MapClearCall == StoreCall("clear", "", JSUndefined, KVClear(db)) /\ Logged("clear", "", JSNull)

NextMap ==
    \/ \E key \in Keys, value \in Storable : MapSetCall(key, value)
    \/ \E key \in Keys : MapDeleteCall(key)
    \/ MapClearCall
    \/ \E key \in Keys : Get(key)
    \/ All

SpecMap == InitMap /\ [][NextMap]_vars

\* Whether key has, in the calls h, a set that no later delete of key and no
\* later clear follows.
RECURSIVE Live(_, _)
Live(h, key) ==
    IF h = <<>> THEN FALSE
    ELSE LET c == h[Len(h)]
         IN  IF c.op = "clear" THEN FALSE
             ELSE IF c.key = key THEN c.op = "set"
             ELSE Live(SubSeq(h, 1, Len(h) - 1), key)

\* The value of the most recent set of key in h.
RECURSIVE Written(_, _)
Written(h, key) ==
    LET c == h[Len(h)]
    IN  IF c.op = "set" /\ c.key = key THEN c.value
        ELSE Written(SubSeq(h, 1, Len(h) - 1), key)

\* C9: after any sequence of set, delete and clear calls, get(k) returns the
\* value of the most recent set(k, v) not followed by delete(k) or clear(),
\* and null (absent) if there is none; all() holds exactly one entry, with
\* that value, for each key that has such a set, and none for any other key.
C9_StoreIsAMap ==
    /\ \A key \in Keys :
        /\ KVGet(db, key).err = NoError
        /\ KVGet(db, key).ret = IF Live(hist, key) THEN Written(hist, key) ELSE JSNull
        /\ LET entries == KVAll(db).ret.items
           IN  IF Live(hist, key)
               THEN /\ Cardinality(EntriesFor(entries, key)) = 1
                    /\ \A i \in EntriesFor(entries, key) :
                           entries[i].value = Written(hist, key)
               ELSE EntriesFor(entries, key) = {}
    /\ last.op = "get" =>
        last.ret = IF Live(hist, last.key) THEN Written(hist, last.key) ELSE JSNull
    /\ last.op = "all" =>
        \A i \in 1..Len(last.ret.items) :
            /\ Live(hist, last.ret.items[i].key)
            /\ last.ret.items[i].value = Written(hist, last.ret.items[i].key)

\* C9's case: a key was set, set again to another value, and then read.
C9_Witness ==
    /\ last.op = "get"
    /\ \E i, j \in 1..Len(hist) :
        /\ i < j
        /\ hist[i].op = "set" /\ hist[j].op = "set"
        /\ hist[i].key = last.key /\ hist[j].key = last.key
        /\ hist[i].value # hist[j].value
        /\ j = Len(hist)
    /\ \E i \in 1..Len(hist) : hist[i].op = "delete"

\* C10: on an open store, delete(k) of a key that has no entry raises no
\* failure and changes nothing, and a delete(k) that follows a delete(k)
\* leaves the table as the first one left it.
C10_DeleteIdempotent ==
    (last.op = "delete" /\ ValidKey(last.key) /\ db.isOpen) =>
        /\ last.err = NoError
        /\ ~HasRow(db.rows, last.key)
        /\ ~HasRow(last.before, last.key) => db.rows = last.before
        /\ last.repeat => db.rows = last.before

\* C10's case: two delete(k) calls in a row have ended, on a table that
\* holds another entry.
C10_Witness ==
    /\ last.op = "delete"
    /\ last.repeat
    /\ last.err = NoError
    /\ db.isOpen
    /\ ~HasRow(db.rows, last.key)
    /\ db.rows # <<>>

\* C11: on an open store, set, get or delete called with a key that is empty
\* or no string raises the invalid-key failure, set called with a valid key
\* and the value undefined raises the undefined-value failure, and in each
\* case the table is afterwards exactly as it was before the call.
C11_ValidationFailuresWriteNothing ==
    (db.isOpen /\ last.op \in {"set", "get", "delete"}) =>
        /\ ~ValidKey(last.key) => IsInvalidKey(last.err) /\ db.rows = last.before
        /\ (last.op = "set" /\ ValidKey(last.key) /\ last.arg = JSUndefined) =>
               IsUndefinedValue(last.err) /\ db.rows = last.before

\* C11's case: set was called with a key that is no string on a store that
\* holds entries, and the call has ended.
C11_Witness ==
    /\ last.op = "set"
    /\ last.key = NumberKey
    /\ last.arg \in Storable
    /\ last.before # <<>>
    /\ db.isOpen

\* ------------------------------------- the store with its journal mode
\* SpecJournal: the store of a database file that holds at most one entry,
\* with setJournalMode; the caller and the routines of its transactions call
\* the methods of the store itself, transaction() included, and make no
\* staging calls.

\* The modes callers ask for: two the engine knows and one it does not.
Modes == {"DELETE", "WAL", "BOGUS"}

InitJournal ==
    /\ db \in {NewDb(t) : t \in {u \in Tables : Len(u) <= 1}}
    /\ stack = <<>>
    /\ calls = 0
    /\ raising = NoError
    /\ last = NoCall
    /\ done = NoTxn
    /\ hist = <<>>

NextJournal ==
    \/ \E mode \in Modes : SetJournalMode(mode)
    \/ \E key \in AnyKey, value \in Supplied : Set(key, value)
    \/ \E key \in AnyKey : Get(key)
    \/ \E key \in AnyKey : Delete(key)
    \/ All
    \/ Clear
    \/ Open
    \/ Close
    \/ \E callback \in Callbacks : Transaction(callback)
    \/ \E e \in UserErrors : Throw(e)
    \/ Catch
    \/ RoutineReturns
    \/ RoutineRaises

SpecJournal == InitJournal /\ [][NextJournal]_vars

C13_DeleteReturnsPrevious ==
    (last.op = "delete" /\ last.err = NoError) =>
        last.ret = GetOf(last.before, last.key)

\* C14: on an open store, transaction() called with no routine raises the
\* missing-callback failure and called with any supplied value that is not a
\* function raises the invalid-callback failure; no engine transaction is
\* begun, the table is unchanged, and a transaction() call with a routine
\* made next begins and commits.
C14_CallbackValidation ==
    (stack = <<>> /\ db.isOpen /\ done.stage = "check") =>
        /\ done.callback = "undefined" => IsMissingCallback(done.error)
        /\ done.callback # "undefined" => IsInvalidCallback(done.error)
        /\ ~db.inTxn
        /\ db.rows = done.startRows
        /\ LET next == TxnEnter(db, "function")
           IN  /\ next.stage = "entered"
               /\ TryAfterCallback(next.db, NewMaps, NoError).stage = "returned"

\* The failure the last call raised to its caller: to the store's caller, or
\* into the routine that made the call.
Failure == IF stack = <<>> THEN last.err ELSE raising

\* C15: on an open store, setJournalMode with a mode that is none of DELETE,
\* MEMORY, OFF, PERSIST, TRUNCATE, WAL raises the invalid-mode failure, the
\* engine is sent no PRAGMA, and the journal mode and the table stay as they
\* were.
C15_InvalidModeChangesNothing ==
    [][\A mode \in Modes \ journalModes :
        (db.isOpen /\ SetJournalMode(mode)) =>
            /\ IsInvalidJournalMode(Failure')
            /\ db'.pragma = db.pragma
            /\ db'.mode = db.mode
            /\ db'.rows = db.rows]_vars

\* C15's case: the store's caller changed the mode to DELETE, and has then
\* called setJournalMode with a mode the store does not know on a store that
\* holds an entry.
C15_Witness ==
    /\ last.op = "setJournalMode"
    /\ last.key \notin journalModes
    /\ last.err # NoError
    /\ db.isOpen
    /\ db.mode = "DELETE"
    /\ db.rows # <<>>

\* C16: after clear() has returned, whatever the store held before, all()
\* returns the empty sequence and get(k) returns the absent result for every
\* key k.
C16_ClearEmptiesStore ==
    (last.op = "clear" /\ last.err = NoError) =>
        /\ KVAll(db) = Ok(db, JSArray(<<>>))
        /\ \A key \in Keys : KVGet(db, key) = Ok(db, JSNull)

\* C16's case: clear() has returned on a store that held an entry for every
\* key.
C16_Witness ==
    /\ last.op = "clear"
    /\ last.err = NoError
    /\ \A key \in Keys : HasRow(last.before, key)

\* C17: while a routine runs that has made staging calls only, however many,
\* the store holds what it held when the transaction began: get(k) for every
\* key and all() on the store return what they returned then.
C17_StagingIsDeferred ==
    (stack # <<>> /\ Top.pure) =>
        /\ db.rows = Top.startRows
        /\ SameContent(db.rows, Top.startRows)

\* C17's case: a running routine has staged a set that would change the
\* value of one key and a delete of another key that has an entry.
C17_Witness ==
    /\ stack # <<>>
    /\ Top.pure
    /\ raising = NoError
    /\ \E i, j \in 1..Len(Top.log) :
        /\ Top.log[i].op = "set"
        /\ Top.log[i].value \in Storable
        /\ GetOf(Top.startRows, Top.log[i].key) # Top.log[i].value
        /\ Top.log[j].op = "delete"
        /\ Top.log[j].key # Top.log[i].key
        /\ HasRow(Top.startRows, Top.log[j].key)

\* C18: every oldValues entry of a successful transaction holds the value its
\* key had in the store when the transaction began, undefined exactly when
\* the key had no entry then, whatever the routine did, also when it wrote or
\* deleted the key on the store itself before it first touched the key on the
\* staging handle.  Stated for the keys that did not hold null when the
\* transaction began, which are the case of C5.
C18_PriorValueIsPreTransactionValue ==
    done.status = "returned" =>
        \A i \in 1..Len(done.oldValues) :
            Before(done.startRows, done.oldValues[i].key) # JSNull =>
                done.oldValues[i].value = Before(done.startRows, done.oldValues[i].key)

\* C20: when a routine has called clear(), set or delete on the store itself
\* and the transaction() call of the store's caller then raises a failure,
\* the store holds what it held when the call began: every entry of then
\* with its value, and no entry the routine wrote.
C20_DirectWritesRolledBack ==
    (done.status = "raised" /\ stack = <<>> /\ done.wrote) =>
        SameContent(done.endRows, done.startRows)

\* ------------------------------------------ the handle after its call
\* SpecLeak: on a store that holds at most one entry, routines that make
\* staging calls with valid keys and keep a reference to their handle, and
\* the store's caller, who calls set and delete on the handle once
\* transaction() has ended.

\* (The variant in which the handle writes to the store.)
LeakedCallWriting(op, key, value, out) ==
    /\ stack = <<>>
    /\ done.stage \in {"routine", "replay", "commit", "returned"}
    /\ Len(done.log) + calls < MaxSteps
    /\ calls' = calls + 1
    /\ done' = [done EXCEPT !.maps = out.maps]
    /\ db' = IF out.err = NoError THEN Replay(db, <<<<key, value>>>>).db ELSE db
    /\ last' = [op |-> op, key |-> key, err |-> out.err, ret |-> out.ret,
                repeat |-> FALSE, before |-> db.rows, arg |-> value]
    /\ UNCHANGED <<stack, raising, hist>>

\* tx.set or tx.delete called on the handle of the transaction() call that
\* ended last, whose routine ran: the closures read the store and write the
\* two maps of that call.
LeakedCall(op, key, value, out) ==
    /\ stack = <<>>
    /\ done.stage \in {"routine", "replay", "commit", "returned"}
    /\ Len(done.log) + calls < MaxSteps
    /\ calls' = calls + 1
    /\ done' = [done EXCEPT !.maps = out.maps]
    /\ last' = [op |-> op, key |-> key, err |-> out.err, ret |-> out.ret,
                repeat |-> FALSE, before |-> db.rows, arg |-> value]
    /\ UNCHANGED <<db, stack, raising, hist>>

LeakedSetCall(key, value) ==
    LeakedCall("tx.set", key, value, TxSet(db, done.maps, key, value))

LeakedDeleteCall(key) ==
    LeakedCall("tx.delete", key, JSNull, TxDelete(db, done.maps, key))

InitLeak ==
    /\ db \in {NewDb(t) : t \in {u \in Tables : Len(u) <= 1}}
    /\ stack = <<>>
    /\ calls = 0
    /\ raising = NoError
    /\ last = NoCall
    /\ done = NoTxn
    /\ hist = <<>>

NextLeak ==
    \/ \E callback \in Callbacks : Transaction(callback)
    \/ \E key \in Keys, value \in Supplied : TxSetCall(key, value)
    \/ \E key \in Keys : TxDeleteCall(key)
    \/ \E e \in UserErrors : Throw(e)
    \/ Catch
    \/ RoutineReturns
    \/ RoutineRaises
    \/ \E key \in Keys, value \in Supplied : LeakedSetCall(key, value)
    \/ \E key \in Keys : LeakedDeleteCall(key)

SpecLeak == InitLeak /\ [][NextLeak]_vars

\* C19: a call of set or delete on the staging handle made after its
\* transaction() call has returned or raised leaves the store as it was
\* before that call, and leaves the report transaction() returned as it was.
C19_LeakedHandleHasNoPower ==
    /\ [](last.op \in {"tx.set", "tx.delete"} =>
            db.rows = last.before /\ SameContent(db.rows, last.before))
    /\ [][(stack = <<>> /\ calls' > calls) =>
            /\ db' = db
            /\ done'.status = done.status
            /\ done'.oldValues = done.oldValues
            /\ done'.newValues = done.newValues]_vars

\* C19's case: transaction() returned a report, and set has since been
\* called on its handle with a value the store does not hold for a key the
\* report does not list.
C19_Witness ==
    /\ last.op = "tx.set"
    /\ last.err = NoError
    /\ last.arg \in Storable
    /\ GetOf(db.rows, last.key) # last.arg
    /\ done.status = "returned"
    /\ done.newValues # <<>>
    /\ EntriesFor(done.newValues, last.key) = {}

\* C21: when a transaction() call has run its try block and has returned or
\* raised, whichever part failed, the engine has no active transaction, until
\* a routine begins again.  Once the call of the store's caller has ended, a
\* transaction() call on the open store begins, and a rollback issued then
\* undoes nothing: what single operations write from then on is not inside a
\* transaction left behind.
C21_NoTransactionLeftOpen ==
    /\ done.stage \in {"begin", "routine", "replay", "commit", "returned"} => ~db.inTxn
    /\ stack = <<>> =>
        /\ ~db.inTxn
        /\ db.isOpen => TxnEnter(db, "function").stage = "entered"
        /\ \A key \in Keys, value \in Storable :
               ExecRollback(KVSet(db, key, value).db).db = KVSet(db, key, value).db

\* C21's case: a transaction() call of the store's caller has raised because
\* the replay of its staged intents failed after applying one, on a store
\* that is still open.
C21_Witness ==
    /\ stack = <<>>
    /\ done.status = "raised"
    /\ done.stage = "replay"
    /\ done.pure
    /\ Len(done.log) >= 2
    /\ done.log[1].value \in Storable
    /\ db.isOpen

\* ------------------------------------ what a transaction leaves alone
\* SpecFrame: routines that make staging calls with valid keys and call set,
\* delete and clear on the store itself; hist holds the direct calls made
\* since the outermost transaction() call began.

InitFrame ==
    /\ db \in {NewDb(t) : t \in Tables}
    /\ stack = <<>>
    /\ calls = 0
    /\ raising = NoError
    /\ last = NoCall
    /\ done = NoTxn
    /\ hist = <<>>

FrameTransaction(callback) ==
    /\ TransactionCall(callback)
    /\ hist' = IF stack = <<>> THEN <<>> ELSE hist

\* The routine calls set, delete or clear on the store it closes over.
DirectSetCall(key, value) == stack # <<>> /\ MapSetCall(key, value)

DirectDeleteCall(key) == stack # <<>> /\ MapDeleteCall(key)

DirectClearCall == stack # <<>> /\ MapClearCall

NextFrame ==
    \/ \E callback \in Callbacks : FrameTransaction(callback)
    \/ \E key \in Keys, value \in Supplied : TxSetCall(key, value)
    \/ \E key \in Keys : TxDeleteCall(key)
    \/ \E key \in Keys, value \in Storable : DirectSetCall(key, value)
    \/ \E key \in Keys : DirectDeleteCall(key)
    \/ DirectClearCall
    \/ \E e \in UserErrors : Throw(e)
    \/ Catch
    \/ RoutineReturns
    \/ RoutineRaises

SpecFrame == InitFrame /\ [][NextFrame]_vars

\* The keys the direct calls h wrote or removed: clear() reaches every key.
DirectKeys(h) ==
    IF \E i \in 1..Len(h) : h[i].op = "clear" THEN Keys
    ELSE {h[i].key : i \in 1..Len(h)}

\* The entries all() returns for key on a store holding rows.
AllFor(rows, key) ==
    LET entries == AllOf(rows).items
    IN  {entries[i] : i \in EntriesFor(entries, key)}

\* C22 as stated: after transaction() has returned normally, every key that
\* was neither staged on the handle nor set, deleted or cleared on the store
\* itself has the entry, or the absence, it had when the call began; a
\* routine that staged nothing gets empty oldValues and newValues and leaves
\* the content of the store as it was.
C22_FrameAsStated ==
    done.status = "returned" =>
        /\ \A key \in Keys \ (Touched(done.log) \cup DirectKeys(hist)) :
            /\ HasRow(done.endRows, key) = HasRow(done.startRows, key)
            /\ GetOf(done.endRows, key) = GetOf(done.startRows, key)
            /\ AllFor(done.endRows, key) = AllFor(done.startRows, key)
        /\ done.log = <<>> =>
            /\ done.oldValues = <<>>
            /\ done.newValues = <<>>
            /\ SameContent(done.endRows, done.startRows)

\* C22, amended: after transaction() has returned normally, every key that was
\* neither staged on the handle nor set, deleted or cleared on the store
\* itself has the entry, or the absence, it had when the call began; a
\* routine that staged nothing gets empty oldValues and newValues, and if it
\* wrote nothing on the store itself either, the table is the one of the
\* start.
C22_FrameOfSuccessfulTransaction ==
    done.status = "returned" =>
        /\ \A key \in Keys \ (Touched(done.log) \cup DirectKeys(hist)) :
            /\ HasRow(done.endRows, key) = HasRow(done.startRows, key)
            /\ GetOf(done.endRows, key) = GetOf(done.startRows, key)
            /\ AllFor(done.endRows, key) = AllFor(done.startRows, key)
        /\ done.log = <<>> =>
            /\ done.oldValues = <<>>
            /\ done.newValues = <<>>
            /\ hist = <<>> => done.endRows = done.startRows

\* C22's case: a transaction has returned whose routine staged a change of
\* one key and wrote nothing on the store itself, while the other key had an
\* entry.
C22_Witness ==
    /\ done.status = "returned"
    /\ hist = <<>>
    /\ \E key \in Keys :
        /\ Touched(done.log) = {key}
        /\ GetOf(done.endRows, key) # GetOf(done.startRows, key)
        /\ \E other \in Keys \ {key} : HasRow(done.startRows, other)

\* -------------------------------------------- the two maps side by side

\* The keys of a map, and of a report's entries, in their order.
MapKeys(m) == [i \in 1..Len(m) |-> m[i][1]]

EntryKeys(entries) == [i \in 1..Len(entries) |-> entries[i].key]

\* C23: in every transaction() call whose routine is running, and in the maps
\* and the report of the call that ended last, oldMap and newMap hold the same
\* keys in the same order, and these are the keys of the staging calls that
\* succeeded, each at its first such call: a staging call that failed entered
\* its key in neither map.
C23_OldAndNewAligned ==
    /\ \A i \in 1..Len(stack) :
        /\ MapKeys(stack[i].maps.oldMap) = MapKeys(stack[i].maps.newMap)
        /\ MapKeys(stack[i].maps.oldMap) = FirstTouch(stack[i].log)
    /\ MapKeys(done.maps.oldMap) = MapKeys(done.maps.newMap)
    /\ EntryKeys(done.oldValues) = EntryKeys(done.newValues)
    /\ done.status = "returned" => EntryKeys(done.newValues) = FirstTouch(done.log)

\* C23's case: a routine that made staging calls only has staged a set of
\* one key and a delete of another, and its next staging call has just failed
\* on an invalid key.
C23_Witness ==
    /\ stack # <<>>
    /\ Top.pure
    /\ IsInvalidKey(raising)
    /\ Len(Top.log) = 2
    /\ Top.log[1].op = "set"
    /\ Top.log[2].op = "delete"
    /\ Len(Top.maps.newMap) = 2

====
